---- MODULE Spec2Model ----
(***************************************************************************)
(* Model of the ClusterRegistration controller                             *)
(* (controllers/cluster/clusterregistration_controller.go).                *)
(*                                                                         *)
(* One namespace is modelled.  The API-server object store holds the       *)
(* ClusterRegistration objects (clr), the kubeconfig secrets (secret) and  *)
(* the ClusterManager objects (clm).  Every Reconcile is a process with a  *)
(* position (pc) and its in-memory copy of the status (mem); it is split   *)
(* at the API calls, so that Reconciles of different keys, the             *)
(* ClusterManager delete handler and the users interleave between calls.   *)
(* Every API call may fail: the failure injected into a step is recorded   *)
(* in  fault  (at most MaxFaults failures are injected in one behaviour).  *)
(*                                                                         *)
(* Two further parts have their own variables and specifications: the      *)
(* admission webhook of ClusterClaim (WebhookSpec) and, for one kubeconfig *)
(* secret, the functions of the SecretReconciler that update the endpoint  *)
(* of the ClusterManager and deploy the role bindings to the remote        *)
(* cluster (SecretSpec, and SubStepSpec with DeployArgocdResources).       *)
(***************************************************************************)
EXTENDS Naturals, FiniteSets, Sequences, TLC

\* ------------------------------------------------------------- bounds
Reqs == {"r1", "r2"}                 \* ClusterRegistration names
Names == {"prod"}                    \* spec.clusterName values
NoReq == "none"
MaxFaults == 2                       \* injected API / remote failures
MaxRestarts == 1                     \* controller process crashes

\* spec.kubeConfig: "bad64" does not base64-decode, "badcfg" decodes but no
\* client can be built from it, "good" decodes to a kubeconfig with an
\* https server entry.
Creds == {"good", "bad64", "badcfg"}

\* ------------------------------------------------------------- status values
PhaseEmpty == ""
PhaseValidated == "Validated"
PhaseSecretCreated == "SecretCreated"
PhaseSuccess == "Success"
PhaseFailed == "Failed"
PhaseDeleted == "Deleted"
Phases == {PhaseEmpty, PhaseValidated, PhaseSecretCreated, PhaseSuccess,
           PhaseFailed, PhaseDeleted}

ReasonNone == ""
ReasonInvalidKubeconfig == "InvalidKubeconfig"
ReasonClusterNotFound == "ClusterNotFound"
ReasonClusterNameDuplicated == "ClusterNameDuplicated"
ReasonClusterDeleted == "cluster is deleted"

ClusterTypeRegistered == "registered"
ClusterTypeCreated == "created"

\* The failure injected into a step ("none": every call of the step succeeds).
FaultNone == "none"
FaultGetClr == "getClr"              \* r.Get of the ClusterRegistration
FaultProbe == "probe"                \* Nodes().List: error, Items == nil
FaultProbeItems == "probeItems"      \* Nodes().List: error, Items != nil
FaultGetClm == "getClm"              \* r.Get of the ClusterManager, not NotFound
FaultGetSecret == "getSecret"        \* r.Get of the secret, not NotFound
FaultCreateSecret == "createSecret"  \* r.Create of the secret
FaultCreateClm == "createClm"        \* r.Create of the ClusterManager
FaultInsert == "insert"              \* util.Insert into cluster_member
FaultPatch == "patch"                \* patchHelper.Patch
FaultUpdate == "update"              \* r.Status().Update
Faults == {FaultNone, FaultGetClr, FaultProbe, FaultProbeItems, FaultGetClm,
           FaultGetSecret, FaultCreateSecret, FaultCreateClm, FaultInsert,
           FaultPatch, FaultUpdate}

VARIABLES
    clr,       \* [Reqs -> object]: st, name, cred, phase, reason
    secret,    \* [Names -> who wrote it | NoReq]: <name>-kubeconfig
    clm,       \* [Names -> ClusterManager | NoClm]
    index,     \* names registered by util.Insert (cluster_member table)
    queue,     \* work queue of the controller: keys waiting for Reconcile
    pc,        \* [Reqs -> position of the key's Reconcile]
    mem,       \* [Reqs -> in-memory status of the running Reconcile]
    orig,      \* [Reqs -> status the patch helper was built from]
    errs,      \* [Reqs -> len(errs) of the running reconcile()]
    events,    \* ClusterManager delete events waiting for the map function
    hpc,       \* position of the map function
    hobj,      \* the ClusterRegistration the map function read
    fault,     \* the failure injected into the last step
    nfaults,   \* failures injected so far
    restarts   \* crashes so far

\* The ClusterClaim admission webhook (apis/claim/v1alpha1).
VARIABLES
    cc,        \* the stored ClusterClaim: phase, spec, meta, deleting
    admission, \* the last admission request: op, old, new
    verdict    \* what the validator returned for it: "nil" or "error"

\* The SecretReconciler (controllers/secret), for one kubeconfig secret.
VARIABLES
    kubecfg,   \* secret.Data["value"]: kind, server
    cm,        \* the ClusterManager named after the secret: exists, owner, endpoint
    remote,    \* the RBAC objects of the remote cluster
    sres       \* the last call of the SecretReconciler: op, err, fault, created

ctlVars == <<clr, secret, clm, index, queue, pc, mem, orig, errs, events, hpc,
             hobj, fault, nfaults, restarts>>
whVars == <<cc, admission, verdict>>
secVars == <<kubecfg, cm, remote, sres>>
vars == <<ctlVars, whVars, secVars>>

NoStatus == [phase |-> PhaseEmpty, reason |-> ReasonNone]
NoClm == [type |-> "none", parent |-> NoReq]
NoClr == [st |-> "absent", name |-> "prod", cred |-> "good", deleting |-> FALSE,
          phase |-> PhaseEmpty, reason |-> ReasonNone]

Status(o) == [phase |-> o.phase, reason |-> o.reason]
Present(c, r) == c[r].st = "present"

\* ------------------------------------------------------------- event filters
\* An UpdateFunc that lets the updates of a ClusterRegistration through.
UpdateFuncAll(o) == TRUE

\* SetupWithManager: the predicates of the ClusterRegistration watch (o is the
\* object of the event) and of the ClusterManager watch (c is the object).
\* No source of generic events is configured.
CreateFunc(o) == o.phase = PhaseEmpty
UpdateFunc(o) == FALSE
ClrDeleteFunc(o) == FALSE
ClmCreateFunc(c) == FALSE
DeleteFunc(c) == c.type = ClusterTypeRegistered

\* ------------------------------------------------------------- Reconcile
\* The part of the state the Reconcile steps read and write, as one record.
\* w.fault is the failure the step has hit ("none" when the step starts).
World ==
    [clr |-> clr, secret |-> secret, clm |-> clm, index |-> index,
     queue |-> queue, pc |-> pc, mem |-> mem, orig |-> orig, errs |-> errs,
     events |-> events, fault |-> FaultNone]

Apply(w) ==
    /\ clr' = w.clr
    /\ secret' = w.secret
    /\ clm' = w.clm
    /\ index' = w.index
    /\ queue' = w.queue
    /\ pc' = w.pc
    /\ mem' = w.mem
    /\ orig' = w.orig
    /\ errs' = w.errs
    /\ events' = w.events
    /\ fault' = w.fault

\* SetTypedPhase / SetTypedReason on the in-memory object.
SetTypedPhase(m, p) == [m EXCEPT !.phase = p]
SetTypedReason(m, s) == [m EXCEPT !.reason = s]

\* A phase function returns: the in-memory status becomes m, err tells whether
\* it returned a non-nil error (reconcile() appends it to errs), and the
\* Reconcile moves on to position next.
Return(w, r, m, err, next) ==
    [w EXCEPT !.mem[r] = m,
              !.errs[r] = IF err THEN @ + 1 ELSE @,
              !.pc[r] = next]

\* The call of the step that fault f is about fails.
Fail(w, f) == [w EXCEPT !.fault = f]

\* Reconcile returns to the scheduler.  A non-nil error makes the controller
\* put the key back on the work queue (rate limited); the in-memory object
\* is dropped.
Finish(w, r, reterr) ==
    [w EXCEPT !.pc[r] = "idle",
              !.mem[r] = NoStatus,
              !.orig[r] = NoStatus,
              !.errs[r] = 0,
              !.queue = IF reterr THEN @ \cup {r} ELSE @]

\* Reconcile, up to the construction of the patch helper: the key is taken
\* off the queue and the object is read.
ReconcileGet(w, r, f) ==
    LET w0 == [w EXCEPT !.queue = @ \ {r}]
    IN  IF ~Present(w.clr, r)
        THEN Finish(w0, r, FALSE)                      \* IsNotFound: return nil
        ELSE IF f = FaultGetClr
        THEN Finish(Fail(w0, f), r, TRUE)              \* return err
        ELSE [w0 EXCEPT !.pc[r] = "CheckValidation",
                        !.mem[r] = Status(w.clr[r]),
                        !.orig[r] = Status(w.clr[r]),
                        !.errs[r] = 0]

\* A CheckValidation that probes the remote cluster but gives an existing
\* ClusterManager of the same name precedence over a failed probe.
CheckValidationBodyDupFirst(w, r, f) ==
    LET m == w.mem[r]
        o == w.clr[r]
        next == "CreateKubeconfigSecret"
        failed(s) == SetTypedReason(SetTypedPhase(m, PhaseFailed), s)
    IN  IF o.cred \in {"bad64", "badcfg"}
        THEN Return(w, r, failed(ReasonInvalidKubeconfig), TRUE, next)
        ELSE IF f = FaultGetClm
        THEN Return(Fail(w, f), r, m, TRUE, next)
        ELSE IF w.clm[o.name] # NoClm
        THEN Return([w EXCEPT !.fault = IF f \in {FaultProbe, FaultProbeItems}
                                        THEN f ELSE @],
                    r, failed(ReasonClusterNameDuplicated), FALSE, next)
        ELSE IF f = FaultProbe
        THEN Return(Fail(w, f), r, failed(ReasonClusterNotFound), FALSE, next)
        ELSE IF f = FaultProbeItems
        THEN Return(Fail(w, f), r, SetTypedPhase(m, PhaseValidated), FALSE, next)
        ELSE Return(w, r, SetTypedPhase(m, PhaseValidated), FALSE, next)

\* A CheckValidation that does not look for a ClusterManager of the same name.
CheckValidationBodyNoDup(w, r, f) ==
    LET m == w.mem[r]
        o == w.clr[r]
        next == "CreateKubeconfigSecret"
        failed(s) == SetTypedReason(SetTypedPhase(m, PhaseFailed), s)
        w1 == IF f = FaultProbeItems THEN Fail(w, f) ELSE w
    IN  IF o.cred \in {"bad64", "badcfg"}
        THEN Return(w, r, failed(ReasonInvalidKubeconfig), TRUE, next)
        ELSE IF f = FaultProbe
        THEN Return(Fail(w, f), r, failed(ReasonClusterNotFound), FALSE, next)
        ELSE IF f = FaultGetClm
        THEN Return(Fail(w, f), r, m, TRUE, next)
        ELSE Return(w1, r, SetTypedPhase(m, PhaseValidated), FALSE, next)

\* CheckValidation after its phase guard.  In the duplication branch the code
\* returns the variable err of the successful r.Get, which is nil; the
\* ClusterNotFound branch returns nil as written.
CheckValidationBody(w, r, f) ==
    LET m == w.mem[r]
        o == w.clr[r]
        next == "CreateKubeconfigSecret"
        failed(s) == SetTypedReason(SetTypedPhase(m, PhaseFailed), s)
        w1 == IF f = FaultProbeItems THEN Fail(w, f) ELSE w
    IN  IF o.cred = "bad64"
        THEN Return(w, r, failed(ReasonInvalidKubeconfig), TRUE, next)
        ELSE IF o.cred = "badcfg"
        THEN Return(w, r, failed(ReasonInvalidKubeconfig), TRUE, next)
        ELSE IF f = FaultProbe
        THEN Return(Fail(w, f), r, failed(ReasonClusterNotFound), FALSE, next)
        ELSE IF f = FaultGetClm
        THEN Return(Fail(w, f), r, m, TRUE, next)
        ELSE IF w.clm[o.name] # NoClm
        THEN Return(w1, r, failed(ReasonClusterNameDuplicated), FALSE, next)
        ELSE Return(w1, r, SetTypedPhase(m, PhaseValidated), FALSE, next)

\* A CheckValidation that validates again whatever the phase is.
CheckValidationNoGuard(w, r, f) == CheckValidationBody(w, r, f)

\* CheckValidation: nothing to do unless the phase is empty.
CheckValidation(w, r, f) ==
    IF w.mem[r].phase # PhaseEmpty
    THEN Return(w, r, w.mem[r], FALSE, "CreateKubeconfigSecret")
    ELSE CheckValidationBody(w, r, f)

\* A CreateKubeconfigSecret that brings an existing secret up to date with
\* the ClusterRegistration instead of leaving it alone.
CreateKubeconfigSecretOverwrite(w, r, f) ==
    LET m == w.mem[r]
        o == w.clr[r]
        next == "CreateClusterManager"
    IN  IF m.phase # PhaseValidated
        THEN Return(w, r, m, FALSE, next)
        ELSE IF f = FaultGetSecret
        THEN Return(Fail(w, f), r, m, TRUE, next)
        ELSE IF w.secret[o.name] # NoReq
        THEN Return([w EXCEPT !.secret[o.name] = r], r,
                    SetTypedPhase(m, PhaseSecretCreated), FALSE, next)
        ELSE [w EXCEPT !.pc[r] = "CreateSecret"]

\* CreateKubeconfigSecret up to the r.Get of the secret.
CreateKubeconfigSecret(w, r, f) ==
    LET m == w.mem[r]
        o == w.clr[r]
        next == "CreateClusterManager"
    IN  IF m.phase # PhaseValidated
        THEN Return(w, r, m, FALSE, next)
        ELSE IF f = FaultGetSecret
        THEN Return(Fail(w, f), r, m, TRUE, next)
        ELSE IF w.secret[o.name] # NoReq
        THEN Return(w, r, SetTypedPhase(m, PhaseSecretCreated), FALSE, next)
        ELSE [w EXCEPT !.pc[r] = "CreateSecret"]

\* CreateKubeconfigSecret from the r.Create of the secret on (the NotFound
\* branch).  The secret carries the creator annotation and the credential of
\* the ClusterRegistration; a create of an existing name fails.
CreateSecret(w, r, f) ==
    LET m == w.mem[r]
        o == w.clr[r]
        next == "CreateClusterManager"
    IN  IF f = FaultCreateSecret
        THEN Return(Fail(w, f), r, m, TRUE, next)
        ELSE IF w.secret[o.name] # NoReq
        THEN Return(w, r, m, TRUE, next)
        ELSE Return([w EXCEPT !.secret[o.name] = r], r,
                    SetTypedPhase(m, PhaseSecretCreated), FALSE, next)

\* A CreateClusterManager that goes ahead whatever the phase is.
CreateClusterManagerNoGuard(w, r, f) ==
    LET m == w.mem[r]
        o == w.clr[r]
        next == "Patch"
    IN  IF f = FaultGetClm
        THEN Return(Fail(w, f), r, m, TRUE, next)
        ELSE IF w.clm[o.name] # NoClm
        THEN Return(w, r, SetTypedPhase(m, PhaseSuccess), FALSE, next)
        ELSE [w EXCEPT !.pc[r] = "CreateClm"]

\* CreateClusterManager up to the r.Get of the ClusterManager.
CreateClusterManager(w, r, f) ==
    LET m == w.mem[r]
        o == w.clr[r]
        next == "Patch"
    IN  IF m.phase # PhaseSecretCreated
        THEN Return(w, r, m, FALSE, next)
        ELSE IF f = FaultGetClm
        THEN Return(Fail(w, f), r, m, TRUE, next)
        ELSE IF w.clm[o.name] # NoClm
        THEN Return(w, r, SetTypedPhase(m, PhaseSuccess), FALSE, next)
        ELSE [w EXCEPT !.pc[r] = "CreateClm"]

\* A CreateClusterManager that creates and registers the ClusterManager but
\* returns without setting the phase.
CreateClmNoSuccess(w, r, f) ==
    LET o == w.clr[r]
    IN  IF f = FaultNone /\ w.clm[o.name] = NoClm
        THEN Return([w EXCEPT !.clm[o.name] =
                                  [type |-> ClusterTypeRegistered, parent |-> r],
                              !.index = @ \cup {o.name}],
                    r, w.mem[r], FALSE, "Patch")
        ELSE Return(w, r, w.mem[r], TRUE, "Patch")

\* A CreateClusterManager that takes the ClusterManager back when util.Insert
\* fails.
CreateClmRollback(w, r, f) ==
    LET m == w.mem[r]
        o == w.clr[r]
        next == "Patch"
        c == [type |-> ClusterTypeRegistered, parent |-> r]
        w1 == [w EXCEPT !.clm[o.name] = c]
    IN  IF f = FaultCreateClm
        THEN Return(Fail(w, f), r, m, TRUE, next)
        ELSE IF w.clm[o.name] # NoClm
        THEN Return(w, r, m, TRUE, next)
        ELSE IF f = FaultInsert
        THEN Return(Fail(w, f), r, m, TRUE, next)
        ELSE Return([w1 EXCEPT !.index = @ \cup {o.name}], r,
                    SetTypedPhase(m, PhaseSuccess), FALSE, next)

\* CreateClusterManager from the r.Create on (the NotFound branch): the
\* ClusterManager is created with the labels type = registered and
\* parent = the ClusterRegistration's name, then util.Insert registers it.
CreateClm(w, r, f) ==
    LET m == w.mem[r]
        o == w.clr[r]
        next == "Patch"
        c == [type |-> ClusterTypeRegistered, parent |-> r]
        w1 == [w EXCEPT !.clm[o.name] = c,
                        !.events = IF ClmCreateFunc(c) THEN @ \cup {r} ELSE @]
    IN  IF f = FaultCreateClm
        THEN Return(Fail(w, f), r, m, TRUE, next)
        ELSE IF w.clm[o.name] # NoClm
        THEN Return(w, r, m, TRUE, next)
        ELSE IF f = FaultInsert
        THEN Return(Fail(w1, f), r, m, TRUE, next)
        ELSE Return([w1 EXCEPT !.index = @ \cup {o.name}], r,
                    SetTypedPhase(m, PhaseSuccess), FALSE, next)

\* reconcilePhase compares with the lower-case string "validated".
reconcilePhase(m) ==
    IF m.phase = "validated" THEN SetTypedPhase(m, PhaseSuccess) ELSE m

\* The patch helper sends a merge patch of the status fields that differ
\* from the object it was built from; it makes no call when none differs.
MergePatch(o, before, after) ==
    [o EXCEPT !.phase = IF after.phase # before.phase THEN after.phase ELSE @,
              !.reason = IF after.reason # before.reason THEN after.reason ELSE @]

\* A Reconcile that patches the status only when reconcile() returned no
\* error.
PatchOnSuccess(w, r, f) ==
    LET m == reconcilePhase(w.mem[r])
    IN  IF w.errs[r] > 0
        THEN Finish(w, r, TRUE)
        ELSE IF m = w.orig[r]
        THEN Finish(w, r, FALSE)
        ELSE IF f = FaultPatch
        THEN Finish(Fail(w, f), r, TRUE)
        ELSE IF ~Present(w.clr, r)
        THEN Finish(w, r, TRUE)
        ELSE Finish([w EXCEPT !.clr[r] = MergePatch(@, w.orig[r], m)], r, FALSE)

\* The deferred function of Reconcile: reconcilePhase, then the patch; a patch
\* error replaces the error of reconcile().  The patch is an update of the
\* ClusterRegistration, whose event goes through UpdateFunc.
Patch(w, r, f) ==
    LET m == reconcilePhase(w.mem[r])
        err == w.errs[r] > 0
    IN  IF m = w.orig[r]
        THEN Finish(w, r, err)
        ELSE IF f = FaultPatch
        THEN Finish(Fail(w, f), r, TRUE)
        ELSE IF ~Present(w.clr, r)
        THEN Finish(w, r, TRUE)
        ELSE LET w1 == [w EXCEPT !.clr[r] = MergePatch(@, w.orig[r], m)]
             IN  Finish(w1, r, err \/ UpdateFunc(w1.clr[r]))

\* The step of the Reconcile of r at its position.
ReconcileStep(w, r, f) ==
    CASE w.pc[r] = "CheckValidation" -> CheckValidation(w, r, f)
      [] w.pc[r] = "CreateKubeconfigSecret" -> CreateKubeconfigSecret(w, r, f)
      [] w.pc[r] = "CreateSecret" -> CreateSecret(w, r, f)
      [] w.pc[r] = "CreateClusterManager" -> CreateClusterManager(w, r, f)
      [] w.pc[r] = "CreateClm" -> CreateClm(w, r, f)
      [] w.pc[r] = "Patch" -> Patch(w, r, f)
      [] OTHER -> w

RECURSIVE ReconcileFrom(_, _, _)
ReconcileFrom(w, r, f) ==
    IF w.pc[r] = "idle" THEN w ELSE ReconcileFrom(ReconcileStep(w, r, f), r, f)

\* One whole Reconcile of key r run from world w with nothing in between,
\* the calls that f is about failing: reconcile() calls the three phase
\* functions in order, then the deferred patch runs.
Reconcile(w, r, f) == ReconcileFrom(ReconcileGet(w, r, f), r, f)

\* ------------------------------------------------------------- ClusterClaim
\* The phases ValidateUpdate names, the phases of a claim not yet decided,
\* and small sets of spec and metadata values.
ClaimPhases == {"", "Awaiting", "Approved", "Rejected", "ClusterDeleted"}
ClaimSpecs == {"spec1", "spec2"}
ClaimMetas == {"meta1", "meta2"}

NewClaim == [phase |-> "", spec |-> "spec1", meta |-> "meta1", deleting |-> FALSE]
NoAdmission == [op |-> "none", old |-> NewClaim, new |-> NewClaim]

\* A ValidateUpdate that takes Rejected for a phase still open to changes.
ValidateUpdateApprovedOnly(r, old) ==
    IF r.deleting
    THEN "nil"
    ELSE IF old.phase = "Approved" \/ old.phase = "ClusterDeleted"
    THEN IF old.spec # r.spec THEN "error" ELSE "nil"
    ELSE "nil"

\* A ValidateUpdate that does not look at the deletion timestamp.
ValidateUpdateNoDeletion(r, old) ==
    IF old.phase = "Approved" \/ old.phase = "Rejected" \/ old.phase = "ClusterDeleted"
    THEN IF old.spec # r.spec THEN "error" ELSE "nil"
    ELSE "nil"

\* ClusterClaim.ValidateUpdate: r is the incoming object, old the stored one.
ValidateUpdate(r, old) ==
    IF r.deleting
    THEN "nil"
    ELSE IF old.phase = "Approved" \/ old.phase = "Rejected" \/ old.phase = "ClusterDeleted"
    THEN IF old.spec # r.spec THEN "error" ELSE "nil"
    ELSE "nil"

\* ClusterClaim.ValidateDelete.
ValidateDelete(r) == "nil"

\* ------------------------------------------------------------- SecretReconciler
\* Strings the code compares letter by letter are sequences of characters.
Chars == {"a", "A", "b"}
MaxServerLen == 1
Servers == UNION {[1..n -> Chars] : n \in 1..MaxServerLen}
Owners == {"alice", "bob"}

\* secret.Data["value"]: "invalid" does not load as a kubeconfig, "nocontext"
\* loads but has no entry for its current context, "valid" has a current
\* context whose cluster has the server URI  server.
Kubeconfigs ==
    [kind : {"valid"}, server : Servers]
        \cup [kind : {"invalid", "nocontext"}, server : {<< >>}]

NoCm == [exists |-> FALSE, owner |-> "alice", endpoint |-> << >>]

\* The calls of the SecretReconciler that may fail.
NoSFault == [call |-> "none", obj |-> << >>]
NoCall == [op |-> "none", err |-> "nil", fault |-> NoSFault, read |-> {},
           created |-> {}, before |-> << >>]

\* A comparison that takes letter case into account.
EqualExact(s, t) == s = t

\* strings.EqualFold on the characters of the model: equal under case folding.
Fold(c) == IF c = "A" THEN "a" ELSE c
EqualFold(s, t) ==
    /\ Len(s) = Len(t)
    /\ \A i \in 1..Len(s) : Fold(s[i]) = Fold(t[i])

\* UpdateClusterManagerControlPlaneEndpoint.  The result is the ClusterManager
\* after the call, the returned error ("panic" when the call does not return)
\* and the failure hit.  An error of the deferred patch is logged and dropped.
UpdateClusterManagerControlPlaneEndpoint(c, k, f) ==
    LET res(c1, e, g) == [cm |-> c1, err |-> e, fault |-> g]
    IN  IF k.kind = "invalid"
        THEN res(c, "error", NoSFault)                  \* clientcmd.Load
        ELSE IF f.call = "getClm"
        THEN res(c, "error", f)
        ELSE IF ~c.exists
        THEN res(c, "nil", NoSFault)                    \* IsNotFound
        ELSE IF k.kind = "nocontext"
        THEN res(c, "panic", NoSFault)                  \* nil Contexts entry
        ELSE IF EqualFold(c.endpoint, k.server)
        THEN res(c, "nil", NoSFault)
        ELSE IF f.call = "patch"
        THEN res(c, "nil", f)
        ELSE res([c EXCEPT !.endpoint = k.server], "nil", NoSFault)

\* The objects DeployRolebinding puts on the remote cluster.
ClusterAdminCRB(owner) ==
    [kind |-> "ClusterRoleBinding", name |-> <<"cluster-owner-crb-", owner>>]
ClusterRole(name) == [kind |-> "ClusterRole", name |-> <<name>>]
crList == <<ClusterRole("developer"), ClusterRole("guest")>>

\* A Create of object o on the remote cluster with no Get before it.
CreateAlways(s, o, f) ==
    IF s.err # "nil"
    THEN s
    ELSE IF f.call = "create" /\ f.obj = o.name
    THEN [s EXCEPT !.err = "error", !.fault = f, !.created = @ \cup {o}]
    ELSE [s EXCEPT !.remote = @ \cup {o}, !.created = @ \cup {o}]

\* A get-or-create that goes on to the next object after an error.
GetOrCreateKeepGoing(s, o, f) ==
    LET s1 == [s EXCEPT !.read = @ \cup {o}]
    IN  IF f = [call |-> "get", obj |-> o.name]
        THEN [s1 EXCEPT !.err = "error", !.fault = f]
        ELSE IF o \in s.remote
        THEN s1
        ELSE IF f = [call |-> "create", obj |-> o.name]
        THEN [s1 EXCEPT !.err = "error", !.fault = f, !.created = @ \cup {o}]
        ELSE IF f = [call |-> "exists", obj |-> o.name]
        THEN [s1 EXCEPT !.err = "error", !.fault = f, !.created = @ \cup {o},
                        !.remote = @ \cup {o}]
        ELSE [s1 EXCEPT !.remote = @ \cup {o}, !.created = @ \cup {o}]

\* Get of object o on the remote cluster, then Create when it is not found;
\* nothing is done once an earlier call has returned an error.  read holds
\* the objects a Get was issued for, created those a Create was issued for.
\* A Create fails outright (fault "create") or with AlreadyExists, somebody
\* else having created the object since the Get (fault "exists").
GetOrCreate(s, o, f) ==
    LET s1 == [s EXCEPT !.read = @ \cup {o}]
    IN  IF s.err # "nil"
        THEN s
        ELSE IF f = [call |-> "get", obj |-> o.name]
        THEN [s1 EXCEPT !.err = "error", !.fault = f]
        ELSE IF o \in s.remote
        THEN s1
        ELSE IF f = [call |-> "create", obj |-> o.name]
        THEN [s1 EXCEPT !.err = "error", !.fault = f, !.created = @ \cup {o}]
        ELSE IF f = [call |-> "exists", obj |-> o.name]
        THEN [s1 EXCEPT !.err = "error", !.fault = f, !.created = @ \cup {o},
                        !.remote = @ \cup {o}]
        ELSE [s1 EXCEPT !.remote = @ \cup {o}, !.created = @ \cup {o}]

\* DeployRolebinding.  created holds the objects a Create call was issued for.
DeployRolebinding(c, k, rem, f) ==
    LET s0 == [remote |-> rem, read |-> {}, created |-> {}, err |-> "nil",
               fault |-> NoSFault]
    IN  IF f.call = "getClm"
        THEN [s0 EXCEPT !.err = "error", !.fault = f]
        ELSE IF ~c.exists
        THEN [s0 EXCEPT !.err = "error"]
        ELSE IF k.kind # "valid"
        THEN [s0 EXCEPT !.err = "error"]                \* GetRemoteK8sClient
        ELSE IF f.call = "client"
        THEN [s0 EXCEPT !.err = "error", !.fault = f]
        ELSE LET s1 == GetOrCreate(s0, ClusterAdminCRB(c.owner), f)
                 s2 == GetOrCreate(s1, crList[1], f)
             IN  GetOrCreate(s2, crList[2], f)

\* The objects DeployArgocdResources puts on the remote cluster, named by
\* the constants of package util that hold their names.
argocdManager == [kind |-> "ServiceAccount", name |-> <<"ArgoServiceAccount">>]
argocdManagerRole == [kind |-> "ClusterRole", name |-> <<"ArgoClusterRole">>]
argocdManagerRoleBinding ==
    [kind |-> "ClusterRoleBinding", name |-> <<"ArgoClusterRoleBinding">>]

\* DeployArgocdResources.
DeployArgocdResources(k, rem, f) ==
    LET s0 == [remote |-> rem, read |-> {}, created |-> {}, err |-> "nil",
               fault |-> NoSFault]
    IN  IF k.kind # "valid"
        THEN [s0 EXCEPT !.err = "error"]                \* GetRemoteK8sClient
        ELSE IF f.call = "client"
        THEN [s0 EXCEPT !.err = "error", !.fault = f]
        ELSE LET s1 == GetOrCreate(s0, argocdManager, f)
                 s2 == GetOrCreate(s1, argocdManagerRole, f)
             IN  GetOrCreate(s2, argocdManagerRoleBinding, f)

\* ------------------------------------------------------------- Reconcile
Init ==
    /\ clr = [r \in Reqs |-> NoClr]
    /\ secret = [n \in Names |-> NoReq]
    /\ clm = [n \in Names |-> NoClm]
    /\ index = {}
    /\ queue = {}
    /\ pc = [r \in Reqs |-> "idle"]
    /\ mem = [r \in Reqs |-> NoStatus]
    /\ orig = [r \in Reqs |-> NoStatus]
    /\ errs = [r \in Reqs |-> 0]
    /\ events = {}
    /\ hpc = "idle"
    /\ hobj = NoReq
    /\ fault = FaultNone
    /\ nfaults = 0
    /\ restarts = 0
    /\ cc = NewClaim
    /\ admission = NoAdmission
    /\ verdict = "nil"
    /\ kubecfg = [kind |-> "valid", server |-> <<"a">>]
    /\ cm = NoCm
    /\ remote = {}
    /\ sres = NoCall

\* One step of the Reconcile of a key: w is the world the step leads to when
\* the call that f is about fails; f is FaultNone, or a call the step makes
\* while failures are left to inject.
Step(w, f) ==
    /\ w.fault = f
    /\ f # FaultNone => nfaults < MaxFaults
    /\ Apply(w)
    /\ nfaults' = IF f # FaultNone THEN nfaults + 1 ELSE nfaults
    /\ UNCHANGED <<hpc, hobj, restarts>>
    /\ UNCHANGED <<whVars, secVars>>

\* The controller's worker takes key r: one Reconcile per key at a time.
DoReconcileGet(r) ==
    /\ r \in queue
    /\ pc[r] = "idle"
    /\ \E f \in Faults : Step(ReconcileGet(World, r, f), f)

DoCheckValidation(r) ==
    /\ pc[r] = "CheckValidation"
    /\ \E f \in Faults : Step(CheckValidation(World, r, f), f)

DoCreateKubeconfigSecret(r) ==
    /\ pc[r] = "CreateKubeconfigSecret"
    /\ \E f \in Faults : Step(CreateKubeconfigSecret(World, r, f), f)

DoCreateSecret(r) ==
    /\ pc[r] = "CreateSecret"
    /\ \E f \in Faults : Step(CreateSecret(World, r, f), f)

DoCreateClusterManager(r) ==
    /\ pc[r] = "CreateClusterManager"
    /\ \E f \in Faults : Step(CreateClusterManager(World, r, f), f)

DoCreateClm(r) ==
    /\ pc[r] = "CreateClm"
    /\ \E f \in Faults : Step(CreateClm(World, r, f), f)

DoPatch(r) ==
    /\ pc[r] = "Patch"
    /\ \E f \in Faults : Step(Patch(World, r, f), f)

\* ------------------------------------------------------------- map function
\* A map function that does not look at the parent's phase.
requeueGetAnyPhase(p, f) ==
    IF p = NoReq \/ ~Present(clr, p) \/ f = FaultGetClr
    THEN [hpc |-> "idle", hobj |-> NoReq, fault |-> f]
    ELSE [hpc |-> "update", hobj |-> p, fault |-> FaultNone]

\* requeueClusterRegistrationsForClusterManager, up to its r.Get: the parent
\* named by the deleted ClusterManager's parent label is read.
requeueGet(p, f) ==
    IF p = NoReq \/ ~Present(clr, p)
    THEN [hpc |-> "idle", hobj |-> NoReq, fault |-> FaultNone]
    ELSE IF f = FaultGetClr
    THEN [hpc |-> "idle", hobj |-> NoReq, fault |-> f]
    ELSE IF clr[p].phase # "Success"
    THEN [hpc |-> "idle", hobj |-> NoReq, fault |-> FaultNone]
    ELSE [hpc |-> "update", hobj |-> p, fault |-> FaultNone]

\* requeueClusterRegistrationsForClusterManager from r.Status().Update on: the
\* status read is written back with Deleted; an error is logged and dropped.
requeueUpdate(c, p, f) ==
    IF f = FaultUpdate
    THEN [clr |-> c, fault |-> f]
    ELSE IF ~Present(c, p)
    THEN [clr |-> c, fault |-> FaultNone]
    ELSE [clr |-> [c EXCEPT ![p].phase = "Deleted",
                            ![p].reason = "cluster is deleted"],
          fault |-> FaultNone]

DoRequeueGet ==
    /\ hpc = "idle"
    /\ \E e \in events : \E f \in {FaultNone, FaultGetClr} :
          LET h == requeueGet(e, f)
          IN  /\ h.fault = f
              /\ f # FaultNone => nfaults < MaxFaults
              /\ events' = events \ {e}
              /\ hpc' = h.hpc
              /\ hobj' = h.hobj
              /\ fault' = h.fault
              /\ nfaults' = IF f # FaultNone THEN nfaults + 1 ELSE nfaults
    /\ UNCHANGED <<clr, secret, clm, index, queue, pc, mem, orig, errs, restarts>>
    /\ UNCHANGED <<whVars, secVars>>

DoRequeueUpdate ==
    /\ hpc = "update"
    /\ \E f \in {FaultNone, FaultUpdate} :
          LET h == requeueUpdate(clr, hobj, f)
          IN  /\ f # FaultNone => nfaults < MaxFaults
              /\ clr' = h.clr
              /\ fault' = h.fault
              /\ nfaults' = IF f # FaultNone THEN nfaults + 1 ELSE nfaults
              /\ queue' = IF h.clr # clr /\ UpdateFunc(h.clr[hobj])
                          THEN queue \cup {hobj}
                          ELSE queue
    /\ hpc' = "idle"
    /\ hobj' = NoReq
    /\ UNCHANGED <<secret, clm, index, pc, mem, orig, errs, events, restarts>>
    /\ UNCHANGED <<whVars, secVars>>

\* ------------------------------------------------------------- environment
\* A user creates ClusterRegistration r; the create event passes CreateFunc
\* (the phase of a new object is empty) and the key is queued.
CreateRegistration(r, n, k) ==
    /\ clr[r].st = "absent"
    /\ clr' = [clr EXCEPT ![r] = [st |-> "present", name |-> n, cred |-> k,
                                  deleting |-> FALSE,
                                  phase |-> PhaseEmpty, reason |-> ReasonNone]]
    /\ queue' = IF CreateFunc(clr'[r]) THEN queue \cup {r} ELSE queue
    /\ fault' = FaultNone
    /\ UNCHANGED <<secret, clm, index, pc, mem, orig, errs, events, hpc, hobj,
                   nfaults, restarts>>
    /\ UNCHANGED <<whVars, secVars>>

\* A user deletes ClusterRegistration r; the delete event goes through the
\* DeleteFunc of the ClusterRegistration watch.
DeleteRegistration(r) ==
    /\ Present(clr, r)
    /\ clr' = [clr EXCEPT ![r].st = "deleted"]
    /\ queue' = IF ClrDeleteFunc(clr[r]) THEN queue \cup {r} ELSE queue
    /\ fault' = FaultNone
    /\ UNCHANGED <<secret, clm, index, pc, mem, orig, errs, events, hpc,
                   hobj, nfaults, restarts>>
    /\ UNCHANGED <<whVars, secVars>>

\* A user deletes ClusterRegistration r while something still holds it (a
\* finalizer, foreground deletion): the object stays, with its deletion
\* timestamp set; the update event goes through UpdateFunc.
RequestDeletion(r) ==
    /\ Present(clr, r)
    /\ ~clr[r].deleting
    /\ clr' = [clr EXCEPT ![r].deleting = TRUE]
    /\ queue' = IF UpdateFunc(clr'[r]) THEN queue \cup {r} ELSE queue
    /\ fault' = FaultNone
    /\ UNCHANGED <<secret, clm, index, pc, mem, orig, errs, events, hpc,
                   hobj, nfaults, restarts>>
    /\ UNCHANGED <<whVars, secVars>>

\* ClusterManager n is deleted; the delete event of a registered one reaches
\* the map function.
DeleteClusterManager(n) ==
    /\ clm[n] # NoClm
    /\ clm' = [clm EXCEPT ![n] = NoClm]
    /\ events' = IF DeleteFunc(clm[n]) THEN events \cup {clm[n].parent} ELSE events
    /\ fault' = FaultNone
    /\ UNCHANGED <<clr, secret, index, queue, pc, mem, orig, errs, hpc, hobj,
                   nfaults, restarts>>
    /\ UNCHANGED <<whVars, secVars>>

\* Another controller creates ClusterManager n for a cluster it created
\* itself (type created, no parent label); the create event goes through the
\* CreateFunc of the ClusterManager watch.
CreateOtherClusterManager(n) ==
    /\ clm[n] = NoClm
    /\ clm' = [clm EXCEPT ![n] = [type |-> ClusterTypeCreated, parent |-> NoReq]]
    /\ events' = IF ClmCreateFunc(clm'[n]) THEN events \cup {clm'[n].parent} ELSE events
    /\ fault' = FaultNone
    /\ UNCHANGED <<clr, secret, index, queue, pc, mem, orig, errs, hpc,
                   hobj, nfaults, restarts>>
    /\ UNCHANGED <<whVars, secVars>>

\* Somebody else (a user, the controller of the clusters created from
\* claims) creates the secret <n>-kubeconfig, with its own content and
\* annotations.
OtherOwner == "other"
CreateOtherSecret(n) ==
    /\ secret[n] = NoReq
    /\ secret' = [secret EXCEPT ![n] = OtherOwner]
    /\ fault' = FaultNone
    /\ UNCHANGED <<clr, clm, index, queue, pc, mem, orig, errs, events, hpc,
                   hobj, nfaults, restarts>>
    /\ UNCHANGED <<whVars, secVars>>

\* The controller process crashes and restarts: running Reconciles and
\* undelivered events are lost, and the informer's initial list delivers a
\* create event for every existing ClusterRegistration, filtered by CreateFunc.
Restart ==
    /\ restarts < MaxRestarts
    /\ restarts' = restarts + 1
    /\ pc' = [r \in Reqs |-> "idle"]
    /\ mem' = [r \in Reqs |-> NoStatus]
    /\ orig' = [r \in Reqs |-> NoStatus]
    /\ errs' = [r \in Reqs |-> 0]
    /\ events' = {}
    /\ hpc' = "idle"
    /\ hobj' = NoReq
    /\ queue' = {r \in Reqs : Present(clr, r) /\ CreateFunc(clr[r])}
    /\ fault' = FaultNone
    /\ UNCHANGED <<clr, secret, clm, index, nfaults>>
    /\ UNCHANGED <<whVars, secVars>>

\* The Reconcile of key r, step by step.
Controller(r) ==
    \/ DoReconcileGet(r)
    \/ DoCheckValidation(r)
    \/ DoCreateKubeconfigSecret(r)
    \/ DoCreateSecret(r)
    \/ DoCreateClusterManager(r)
    \/ DoCreateClm(r)
    \/ DoPatch(r)

\* The map function of the ClusterManager watch.
Handler ==
    \/ DoRequeueGet
    \/ DoRequeueUpdate

\* One ClusterRegistration, "r1", with every credential, the other
\* ClusterManagers of the namespace, deletions and crashes.
CoreNext ==
    \/ Controller("r1")
    \/ Handler
    \/ \E n \in Names, k \in Creds : CreateRegistration("r1", n, k)
    \/ DeleteRegistration("r1")
    \/ \E n \in Names : DeleteClusterManager(n)
    \/ \E n \in Names : CreateOtherClusterManager(n)
    \/ Restart

Next ==
    \/ CoreNext
    \/ RequestDeletion("r1")
    \/ \E n \in Names : CreateOtherSecret(n)

Spec == Init /\ [][Next]_vars

\* The scheduler keeps running a Reconcile it started and keeps taking queued
\* keys; the informer keeps calling the map function for delivered events.
\* Users, other controllers, failures and crashes are under no obligation.
Fairness ==
    /\ WF_vars(Controller("r1"))
    /\ WF_vars(Handler)

FairSpec == Spec /\ Fairness

\* Two ClusterRegistrations: "r2" is a second registration with a good
\* credential, reconciled concurrently with "r1"; no deletion is left
\* pending on either.
CreateSecond == \E n \in Names : CreateRegistration("r2", n, "good")

RaceNext ==
    \/ CoreNext
    \/ Controller("r2")
    \/ CreateSecond

RaceSpec == Init /\ [][RaceNext]_vars

\* One ClusterRegistration, "r1", and the deletion of ClusterManagers, with
\* nothing going wrong: the only ClusterManager there can be is the one the
\* Reconcile of "r1" creates, no call fails and the controller does not
\* crash.
CascadeNext ==
    \/ Controller("r1")
    \/ Handler
    \/ \E n \in Names, k \in Creds : CreateRegistration("r1", n, k)
    \/ DeleteRegistration("r1")
    \/ RequestDeletion("r1")
    \/ \E n \in Names : DeleteClusterManager(n)

CascadeSpec == Init /\ [][CascadeNext /\ nfaults' = nfaults]_vars

\* ------------------------------------------------------------- admission
\* The API server calls the validator for an update or a delete of the stored
\* ClusterClaim and stores the incoming object when the validator returns nil.
Admit(op, new, v) ==
    /\ admission' = [op |-> op, old |-> cc, new |-> new]
    /\ verdict' = v
    /\ cc' = IF v = "nil" THEN new ELSE cc
    /\ UNCHANGED <<ctlVars, secVars>>

\* A client updates spec and metadata; the deletion timestamp of the incoming
\* object is the stored one.
UpdateClaim(s, m) ==
    LET new == [cc EXCEPT !.spec = s, !.meta = m]
    IN  Admit("update", new, ValidateUpdate(new, cc))

\* The claim controller or an administrator writes status.phase; the webhook
\* is registered for clusterclaims/status too.
UpdateClaimStatus(p) ==
    LET new == [cc EXCEPT !.phase = p]
    IN  Admit("update", new, ValidateUpdate(new, cc))

\* A client deletes the claim; the object stays, with its deletion timestamp
\* set, until its finalizers are gone.
DeleteClaim ==
    LET new == [cc EXCEPT !.deleting = TRUE]
    IN  Admit("delete", new, ValidateDelete(cc))

WebhookNext ==
    \/ \E s \in ClaimSpecs, m \in ClaimMetas : UpdateClaim(s, m)
    \/ \E p \in ClaimPhases : UpdateClaimStatus(p)
    \/ DeleteClaim

WebhookSpec == Init /\ [][WebhookNext]_vars

\* ------------------------------------------------------------- secret steps
SFault(call) == [call |-> call, obj |-> << >>]

\* The remote calls of DeployRolebinding for owner o that may fail.
RemoteFaults(o) ==
    [call : {"get", "create", "exists"},
     obj : {ClusterAdminCRB(o).name, crList[1].name, crList[2].name}]

\* The remote calls of DeployArgocdResources that may fail.
ArgoFaults ==
    [call : {"get", "create", "exists"},
     obj : {argocdManager.name, argocdManagerRole.name,
            argocdManagerRoleBinding.name}]

\* The SecretReconciler calls UpdateClusterManagerControlPlaneEndpoint for the
\* secret.
DoUpdateEndpoint ==
    /\ \E f \in {NoSFault, SFault("getClm"), SFault("patch")} :
          LET res == UpdateClusterManagerControlPlaneEndpoint(cm, kubecfg, f)
          IN  /\ res.fault = f
              /\ cm' = res.cm
              /\ sres' = [op |-> "UpdateClusterManagerControlPlaneEndpoint",
                          err |-> res.err, fault |-> f, read |-> {},
                          created |-> {}, before |-> cm.endpoint]
    /\ UNCHANGED <<kubecfg, remote, ctlVars, whVars>>

\* The SecretReconciler calls DeployRolebinding for the secret.
DoDeployRolebinding ==
    /\ \E f \in {NoSFault, SFault("getClm"), SFault("client")}
                   \cup RemoteFaults(cm.owner) :
          LET res == DeployRolebinding(cm, kubecfg, remote, f)
          IN  /\ res.fault = f
              /\ remote' = res.remote
              /\ sres' = [op |-> "DeployRolebinding", err |-> res.err,
                          fault |-> f, read |-> res.read,
                          created |-> res.created, before |-> cm.endpoint]
    /\ UNCHANGED <<kubecfg, cm, ctlVars, whVars>>

\* The SecretReconciler calls DeployArgocdResources for the secret.
DoDeployArgocdResources ==
    /\ \E f \in {NoSFault, SFault("client")} \cup ArgoFaults :
          LET res == DeployArgocdResources(kubecfg, remote, f)
          IN  /\ res.fault = f
              /\ remote' = res.remote
              /\ sres' = [op |-> "DeployArgocdResources", err |-> res.err,
                          fault |-> f, read |-> res.read,
                          created |-> res.created, before |-> cm.endpoint]
    /\ UNCHANGED <<kubecfg, cm, ctlVars, whVars>>

\* The kubeconfig of the secret is written (the ClusterRegistration
\* controller creates it; a user may replace it).  sres describes the last
\* call of the SecretReconciler only as long as nothing else has changed.
WriteKubeconfig(k) ==
    /\ kubecfg' = k
    /\ sres' = NoCall
    /\ UNCHANGED <<cm, remote, ctlVars, whVars>>

\* The ClusterManager named after the secret is created for owner o, with no
\* endpoint in its status yet.
CreateCm(o) ==
    /\ ~cm.exists
    /\ cm' = [exists |-> TRUE, owner |-> o, endpoint |-> << >>]
    /\ sres' = NoCall
    /\ UNCHANGED <<kubecfg, remote, ctlVars, whVars>>

DeleteCm ==
    /\ cm.exists
    /\ cm' = NoCm
    /\ sres' = NoCall
    /\ UNCHANGED <<kubecfg, remote, ctlVars, whVars>>

SecretNext ==
    \/ DoUpdateEndpoint
    \/ DoDeployRolebinding
    \/ \E k \in Kubeconfigs : WriteKubeconfig(k)
    \/ \E o \in Owners : CreateCm(o)
    \/ DeleteCm

SecretSpec == Init /\ [][SecretNext]_vars

\* The three functions the SecretReconciler calls for a kubeconfig secret,
\* together, with the kubeconfigs of two server URIs that differ by more than
\* letter case and the kubeconfigs that cannot be used.
SubStepKubeconfigs ==
    {k \in Kubeconfigs : k.kind = "valid" => k.server \in {<<"a">>, <<"b">>}}

SubStepNext ==
    \/ DoUpdateEndpoint
    \/ DoDeployRolebinding
    \/ DoDeployArgocdResources
    \/ \E k \in SubStepKubeconfigs : WriteKubeconfig(k)
    \/ \E o \in Owners : CreateCm(o)
    \/ DeleteCm

SubStepSpec == Init /\ [][SubStepNext]_vars

\* ------------------------------------------------------------- properties
Chain == <<PhaseEmpty, PhaseValidated, PhaseSecretCreated, PhaseSuccess>>
Rank(p) == CHOOSE i \in 1..Len(Chain) : Chain[i] = p
InChain(p) == \E i \in 1..Len(Chain) : Chain[i] = p

\* A transition of the persisted phase from p to q that is not a regression.
Forward(p, q) ==
    \/ q \in {PhaseFailed, PhaseDeleted}
    \/ InChain(p) /\ InChain(q) /\ Rank(p) <= Rank(q)

\* C1: over every step of Reconcile, of the map function and of the
\* environment, the persisted phase of a ClusterRegistration moves forward
\* in "" < Validated < SecretCreated < Success, or into Failed or Deleted.
C1_MonotonicPhase ==
    [][\A r \in Reqs :
          Present(clr, r) /\ Present(clr', r)
              => Forward(clr[r].phase, clr'[r].phase)]_vars

\* C1 witness: the phase went all the way to Success and the map function
\* then moved it to Deleted.
C1_Witness ==
    /\ Present(clr, "r1")
    /\ clr["r1"].phase = PhaseDeleted
    /\ clr["r1"].reason = ReasonClusterDeleted

\* A ClusterRegistration just created: good credential, queued, nothing
\* running, no ClusterManager of its name.
NewRegistration(r) ==
    /\ Present(clr, r)
    /\ clr[r].phase = PhaseEmpty
    /\ clr[r].cred = "good"
    /\ r \in queue
    /\ pc[r] = "idle"
    /\ clm[clr[r].name] = NoClm

\* The onboarding of r is complete: Success is persisted, the secret
\* <clusterName>-kubeconfig and the ClusterManager clusterName exist.
Onboarded(r) ==
    /\ Present(clr, r)
    /\ clr[r].phase = PhaseSuccess
    /\ secret[clr[r].name] # NoReq
    /\ clm[clr[r].name] # NoClm

\* What C2 does not cover: the remote cluster does not answer the probe, a
\* Reconcile is abandoned (its patch fails, the process restarts), the
\* ClusterRegistration is deleted, or somebody else creates or deletes the
\* ClusterManager of that name.
Disturbed(r) ==
    \/ fault \in {FaultProbe, FaultPatch}
    \/ restarts > 0
    \/ clr[r].st = "deleted"
    \/ clm[clr[r].name].type = ClusterTypeCreated
    \/ r \in events

C3_SecondRunChangesNothing ==
    \A r \in Reqs : \A f \in Faults :
        (Present(clr, r) /\ pc[r] = "idle") =>
            LET w1 == Reconcile(World, r, f)
                w2 == Reconcile(w1, r, f)
            IN  /\ Status(w2.clr[r]) = Status(w1.clr[r])
                /\ w2.secret = w1.secret
                /\ w2.clm = w1.clm

\* The running Reconcile of r is abandoned (the process dies): its in-memory
\* object is lost, the store is as the Reconcile left it.
Abandon(w, r) ==
    [w EXCEPT !.pc[r] = "idle", !.mem[r] = NoStatus, !.orig[r] = NoStatus,
              !.errs[r] = 0]

\* The ClusterManager r's Reconcile creates.
OwnClm(r) == [type |-> ClusterTypeRegistered, parent |-> r]

\* r's running Reconcile has created the secret or the ClusterManager, its
\* progress is not persisted yet, and nobody else has taken the clusterName.
CreatedUnpersisted(r) ==
    /\ Present(clr, r)
    /\ pc[r] # "idle"
    /\ mem[r].phase # clr[r].phase
    /\ secret[clr[r].name] = r \/ clm[clr[r].name] = OwnClm(r)
    /\ clm[clr[r].name] \in {NoClm, OwnClm(r)}

\* C4: a Reconcile abandoned after it created the secret and/or the
\* ClusterManager and before its phase was persisted is recovered by running
\* Reconcile again from the persisted phase: the registration reaches Success,
\* with its secret and its ClusterManager.
C4_AbandonedRunRecovers ==
    \A r \in Reqs :
        CreatedUnpersisted(r) =>
            LET w1 == Reconcile(Abandon(World, r), r, FaultNone)
            IN  /\ w1.clr[r].phase = PhaseSuccess
                /\ w1.secret[clr[r].name] # NoReq
                /\ w1.clm[clr[r].name] # NoClm

\* A step of the Reconcile of r is taken.
Stepped(r) == pc'[r] # pc[r] /\ restarts' = restarts

Duplicated == [phase |-> PhaseFailed, reason |-> ReasonClusterNameDuplicated]

\* C5: CheckValidation of a new ClusterRegistration with a good credential
\* that answers the probe, run while a ClusterManager of its clusterName
\* exists, sets Failed / ClusterNameDuplicated; the rest of that Reconcile
\* creates or overwrites no ClusterManager and no secret, and its patch
\* persists Failed / ClusterNameDuplicated.
C5_DuplicateRejected ==
    [][\A r \in Reqs :
          /\ ( /\ pc[r] = "CheckValidation"
               /\ Stepped(r)
               /\ mem[r].phase = PhaseEmpty
               /\ clr[r].cred = "good"
               /\ clm[clr[r].name] # NoClm
               /\ fault' = FaultNone )
             => (mem'[r] = Duplicated /\ clm' = clm /\ secret' = secret)
          /\ ( /\ pc[r] # "idle"
               /\ Stepped(r)
               /\ mem[r] = Duplicated
               /\ fault' = FaultNone )
             => /\ clm' = clm
                /\ secret' = secret
                /\ pc'[r] # "idle" => mem'[r] = Duplicated
                /\ (pc'[r] = "idle" /\ Present(clr', r))
                       => Status(clr'[r]) = Duplicated]_vars

\* C5 witness: the registration was rejected as a duplicate of a
\* ClusterManager that is not its own, which is still there.
C5_Witness ==
    /\ Present(clr, "r1")
    /\ Status(clr["r1"]) = Duplicated
    /\ clm["prod"] = [type |-> ClusterTypeCreated, parent |-> NoReq]
    /\ secret["prod"] = NoReq

\* C6: of two ClusterRegistrations with the same clusterName at most one
\* reaches Success.
C6_AtMostOneSuccess ==
    \A r, q \in Reqs :
        ( /\ r # q
          /\ Present(clr, r) /\ Present(clr, q)
          /\ clr[r].name = clr[q].name
          /\ clr[r].phase = PhaseSuccess )
        => clr[q].phase # PhaseSuccess

ClusterDeleted == [phase |-> PhaseDeleted, reason |-> ReasonClusterDeleted]

\* The map function takes the delete event of a ClusterManager whose parent
\* label is p.
HandlerTakes(p) ==
    /\ hpc = "idle"
    /\ p \in events
    /\ events' = events \ {p}
    /\ restarts' = restarts

\* C7: the delete event of a registered ClusterManager reaches the map
\* function; when the parent read is present with phase Success and the
\* status update goes through, the parent's status becomes Deleted / "cluster
\* is deleted"; when the parent is missing or its phase is not Success, the
\* map function ends and no object is changed.
C7_CascadeDeletion ==
    [][/\ \A n \in Names :
             (clm[n] # NoClm /\ clm'[n] = NoClm /\ DeleteFunc(clm[n]))
                 => clm[n].parent \in events'
       /\ \A p \in Reqs :
             /\ ( /\ HandlerTakes(p)
                  /\ Present(clr, p)
                  /\ clr[p].phase = PhaseSuccess
                  /\ fault' = FaultNone )
                => (hpc' = "update" /\ hobj' = p)
             /\ ( /\ HandlerTakes(p)
                  /\ ~(Present(clr, p) /\ clr[p].phase = PhaseSuccess) )
                => /\ hpc' = "idle"
                   /\ UNCHANGED <<clr, secret, clm, index>>
             /\ ( /\ hpc = "update"
                  /\ hobj = p
                  /\ hpc' = "idle"
                  /\ restarts' = restarts
                  /\ Present(clr, p)
                  /\ fault' = FaultNone )
                => /\ Status(clr'[p]) = ClusterDeleted
                   /\ UNCHANGED <<secret, clm, index>>]_vars

\* C7 witness: the ClusterManager of a registration that had reached Success
\* is gone and the map function has marked the registration Deleted.
C7_Witness ==
    /\ Present(clr, "r1")
    /\ Status(clr["r1"]) = ClusterDeleted
    /\ clm["prod"] = NoClm
    /\ hpc = "idle"
    /\ events = {}

\* C8: a phase function that sets the phase to Failed returns a non-nil
\* error, which reconcile() collects in errs.
C8_FailedReturnsError ==
    \A r \in Reqs :
        ( /\ pc[r] # "idle"
          /\ mem[r].phase = PhaseFailed
          /\ orig[r].phase # PhaseFailed )
        => errs[r] > 0

C10_PatchPersistsStatus ==
    [][\A r \in Reqs :
          ( /\ pc[r] = "Patch"
            /\ Stepped(r)
            /\ fault' # FaultPatch
            /\ Present(clr', r) )
          => Status(clr'[r]) = reconcilePhase(mem[r])]_vars

\* C10 witness: a Reconcile whose CheckValidation returned an error has
\* persisted Failed / InvalidKubeconfig and is queued again.
C10_Witness ==
    /\ Present(clr, "r1")
    /\ clr["r1"].phase = PhaseFailed
    /\ clr["r1"].reason = ReasonInvalidKubeconfig
    /\ pc["r1"] = "idle"
    /\ "r1" \in queue
    /\ fault = FaultNone

\* C11: a status write that fails is retried and not lost.  Once the map
\* function has read a Success parent and is about to write Deleted, the
\* parent's status eventually is Deleted / "cluster is deleted", unless the
\* parent is deleted or the controller restarts first.
C11_DeletedEventuallyApplied ==
    (hpc = "update" /\ hobj = "r1" /\ Present(clr, "r1"))
        ~> \/ Status(clr["r1"]) = ClusterDeleted
           \/ ~Present(clr, "r1")
           \/ restarts > 0

FrozenPhases == {"Approved", "Rejected", "ClusterDeleted"}

\* C12: for an update of a claim whose deletion has not been requested,
\* ValidateUpdate returns an error exactly when the stored phase is Approved,
\* Rejected or ClusterDeleted and the incoming spec differs from the stored
\* one: a change of metadata or status alone is accepted, and so is a change
\* of spec under any other stored phase.
C12_ValidateUpdate ==
    (admission.op = "update" /\ ~admission.new.deleting)
        => /\ verdict = "error"
                <=> /\ admission.old.phase \in FrozenPhases
                    /\ admission.old.spec # admission.new.spec
           /\ cc = IF verdict = "error" THEN admission.old ELSE admission.new

\* C12 witness: a change of the spec of an Approved claim was refused and the
\* stored claim is the old one.
C12_Witness ==
    /\ admission.op = "update"
    /\ ~admission.new.deleting
    /\ admission.old.phase = "Approved"
    /\ admission.old.spec # admission.new.spec
    /\ verdict = "error"
    /\ cc = admission.old

\* C13: once the incoming object carries a deletion timestamp ValidateUpdate
\* accepts every update, a change of spec under Approved, Rejected or
\* ClusterDeleted included; ValidateDelete accepts every deletion.
C13_DeletionAlwaysPermitted ==
    /\ (admission.op = "update" /\ admission.new.deleting)
           => (verdict = "nil" /\ cc = admission.new)
    /\ admission.op = "delete"
           => (verdict = "nil" /\ cc.deleting)

\* C13 witness: the spec of a claim in a frozen phase, whose deletion has been
\* requested, was changed.
C13_Witness ==
    /\ admission.op = "update"
    /\ admission.new.deleting
    /\ admission.old.phase \in FrozenPhases
    /\ admission.old.spec # admission.new.spec
    /\ verdict = "nil"
    /\ cc.spec = admission.new.spec

\* C14: a Reconcile of a ClusterRegistration that carries a deletion
\* timestamp creates no secret and no ClusterManager and leaves the phase as
\* it is, whatever the phase.
C14_DeletingIsSkipped ==
    \A r \in Reqs :
        (Present(clr, r) /\ clr[r].deleting /\ pc[r] = "idle")
        => LET w == Reconcile(World, r, FaultNone)
           IN  /\ w.clr[r].phase = clr[r].phase
               /\ w.secret = secret
               /\ w.clm = clm

\* C15: a key enters the work queue only through a create event of a
\* ClusterRegistration whose phase is empty (a new object, or the replay of
\* the existing objects after a restart) or because its own Reconcile
\* returned an error, and such a create event does queue the key; the map
\* function is given work only by the delete event of a ClusterManager
\* labelled registered.  Updates and deletes of a ClusterRegistration, create
\* events with another phase and the other ClusterManager events queue
\* nothing.
C15_EventFilters ==
    [][/\ \A r \in Reqs :
             /\ (r \in queue' /\ r \notin queue)
                   => \/ /\ clr[r].st = "absent"
                         /\ Present(clr', r)
                         /\ clr'[r].phase = PhaseEmpty
                      \/ /\ restarts' # restarts
                         /\ Present(clr, r)
                         /\ clr[r].phase = PhaseEmpty
                      \/ /\ pc[r] # "idle"
                         /\ pc'[r] = "idle"
                         /\ restarts' = restarts
             /\ (clr[r].st = "absent" /\ Present(clr', r)) => r \in queue'
             /\ (restarts' # restarts /\ r \in queue')
                   => (Present(clr, r) /\ clr[r].phase = PhaseEmpty)
       /\ \A p \in Reqs :
             (p \in events' /\ p \notin events)
                 => \E n \in Names :
                       /\ clm[n] = [type |-> ClusterTypeRegistered, parent |-> p]
                       /\ clm'[n] = NoClm
       /\ (hpc = "idle" /\ hpc' # "idle") => \E p \in events : hobj' = p]_vars

\* C15 witness: a Success registration whose deletion has been requested,
\* after a restart: neither the update nor the replayed create event queued
\* its key, and the ClusterManager that another controller created gave the
\* map function nothing to do.
C15_Witness ==
    /\ Present(clr, "r1")
    /\ clr["r1"].phase = PhaseSuccess
    /\ clr["r1"].deleting
    /\ restarts > 0
    /\ clm["prod"].type = ClusterTypeCreated
    /\ queue = {}
    /\ events = {}
    /\ pc["r1"] = "idle"
    /\ hpc = "idle"

EndpointCall == sres.op = "UpdateClusterManagerControlPlaneEndpoint"

\* s and t are the same string up to the case of their letters.
SameUpToCase(s, t) ==
    /\ Len(s) = Len(t)
    /\ \A i \in 1..Len(s) :
          s[i] = t[i] \/ {s[i], t[i]} = {"a", "A"}

\* C16: a call of UpdateClusterManagerControlPlaneEndpoint for an existing
\* ClusterManager and a secret whose kubeconfig names a server, in which no
\* call fails, returns nil and leaves the stored endpoint equal to the server
\* URI when the two differed by more than letter case, and leaves the stored
\* endpoint as it was when they differed in letter case only or not at all.
C16_EndpointConverges ==
    (EndpointCall /\ sres.fault = NoSFault /\ cm.exists /\ kubecfg.kind = "valid")
        => /\ sres.err = "nil"
           /\ cm.endpoint = IF SameUpToCase(sres.before, kubecfg.server)
                             THEN sres.before
                             ELSE kubecfg.server

\* C16 witness: a stale endpoint was replaced by the server URI.
C16_Witness ==
    /\ EndpointCall
    /\ sres.fault = NoSFault
    /\ cm.exists
    /\ kubecfg.kind = "valid"
    /\ sres.before # << >>
    /\ Len(sres.before) = Len(kubecfg.server)
    /\ ~SameUpToCase(sres.before, kubecfg.server)
    /\ cm.endpoint = kubecfg.server

\* The objects DeployRolebinding wants on the remote cluster for owner o.
Wanted(o) == {ClusterAdminCRB(o), crList[1], crList[2]}

\* C17: DeployRolebinding only adds objects to the remote cluster, and only
\* the cluster-owner binding of the owner and the cluster roles developer and
\* guest; after a call that returned nil the binding of the owner and the two
\* roles exist; a call made when the three already exist issues no Create and
\* changes nothing on the remote cluster.
C17_DeployRolebindingIdempotent ==
    [][/\ remote \subseteq remote'
       /\ sres'.op = "DeployRolebinding"
             => (remote' \ remote) \subseteq Wanted(cm.owner)
       /\ (sres'.op = "DeployRolebinding" /\ sres'.err = "nil")
             => (cm.exists /\ Wanted(cm.owner) \subseteq remote')
       /\ ( /\ sres'.op = "DeployRolebinding"
            /\ cm.exists
            /\ Wanted(cm.owner) \subseteq remote )
          => (sres'.created = {} /\ remote' = remote)]_vars

\* C17 witness: DeployRolebinding was called again after it had put the three
\* objects on the remote cluster, returned nil and issued no Create.
C17_Witness ==
    /\ sres.op = "DeployRolebinding"
    /\ sres.err = "nil"
    /\ sres.fault = NoSFault
    /\ sres.created = {}
    /\ cm.exists
    /\ remote = Wanted(cm.owner)

\* C18: Failed and Deleted are absorbing.  While the persisted phase of a
\* ClusterRegistration is Failed or Deleted no step changes its phase or
\* reason, and the steps of its own Reconcile create no secret and no
\* ClusterManager and register nothing.
C18_FailedDeletedAbsorbing ==
    [][\A r \in Reqs :
          (Present(clr, r) /\ clr[r].phase \in {PhaseFailed, PhaseDeleted})
              => /\ Present(clr', r) => Status(clr'[r]) = Status(clr[r])
                 /\ Stepped(r) => UNCHANGED <<secret, clm, index>>]_vars

\* C18 witness: the Reconcile of a Failed registration has run again, through
\* its three phase functions, and is about to return.
C18_Witness ==
    /\ Present(clr, "r1")
    /\ clr["r1"].phase = PhaseFailed
    /\ orig["r1"].phase = PhaseFailed
    /\ mem["r1"].phase = PhaseFailed
    /\ pc["r1"] = "Patch"
    /\ secret["prod"] = NoReq
    /\ clm["prod"] = NoClm

FailedWith(s) == [phase |-> PhaseFailed, reason |-> s]

\* C19: CheckValidation run at phase "" decides in this order: a credential
\* that does not decode or gives no client sets Failed / InvalidKubeconfig; a
\* probe that fails with no items sets Failed / ClusterNotFound; an error
\* other than NotFound while reading the ClusterManager leaves the status as
\* it is and is returned; an existing ClusterManager sets Failed /
\* ClusterNameDuplicated; otherwise the phase becomes Validated.  It creates
\* nothing.
C19_CheckValidationOutcome ==
    [][\A r \in Reqs :
          ( /\ pc[r] = "CheckValidation"
            /\ Stepped(r)
            /\ mem[r].phase = PhaseEmpty )
          => /\ UNCHANGED <<clr, secret, clm, index>>
             /\ IF clr[r].cred # "good"
                THEN mem'[r] = FailedWith(ReasonInvalidKubeconfig)
                ELSE IF fault' = FaultProbe
                THEN mem'[r] = FailedWith(ReasonClusterNotFound)
                ELSE IF fault' = FaultGetClm
                THEN mem'[r] = mem[r] /\ errs'[r] = errs[r] + 1
                ELSE IF clm[clr[r].name] # NoClm
                THEN mem'[r] = FailedWith(ReasonClusterNameDuplicated)
                ELSE mem'[r] = [mem[r] EXCEPT !.phase = PhaseValidated]]_vars

\* C19 witness: the probe failed while a ClusterManager of the name existed,
\* and CheckValidation has set Failed / ClusterNotFound.
C19_Witness ==
    /\ pc["r1"] = "CreateKubeconfigSecret"
    /\ fault = FaultProbe
    /\ mem["r1"] = FailedWith(ReasonClusterNotFound)
    /\ clm["prod"] # NoClm
    /\ clr["r1"].phase = PhaseEmpty

\* The positions a Reconcile may move to from position p.
After(p) ==
    CASE p = "idle" -> {"idle", "CheckValidation"}
      [] p = "CheckValidation" -> {"CreateKubeconfigSecret"}
      [] p = "CreateKubeconfigSecret" -> {"CreateSecret", "CreateClusterManager"}
      [] p = "CreateSecret" -> {"CreateClusterManager"}
      [] p = "CreateClusterManager" -> {"CreateClm", "Patch"}
      [] p = "CreateClm" -> {"Patch"}
      [] p = "Patch" -> {"idle"}

\* C20: in one Reconcile the phase functions run in the order CheckValidation,
\* CreateKubeconfigSecret, CreateClusterManager; once one of them has returned
\* an error the later ones create nothing, register nothing and leave the
\* in-memory status as it is; errors are only ever added to the list, and
\* when the deferred patch does not fail the key is queued again exactly when
\* the list is not empty.
C20_OrderAndShortCircuit ==
    [][\A r \in Reqs :
          Stepped(r)
          => /\ pc'[r] \in After(pc[r])
             /\ (errs[r] > 0 /\ pc[r] \notin {"idle", "Patch"})
                   => /\ UNCHANGED <<clr, secret, clm, index>>
                      /\ mem'[r] = mem[r]
             /\ pc'[r] # "idle" => errs'[r] >= errs[r]
             /\ (pc[r] = "Patch" /\ fault' # FaultPatch /\ Present(clr, r))
                   => (r \in queue' <=> errs[r] > 0)]_vars

\* C20 witness: the creation of the secret failed, CreateClusterManager has
\* run after it and the Reconcile is about to return with the error, the
\* phase still Validated and nothing created.
C20_Witness ==
    /\ pc["r1"] = "Patch"
    /\ errs["r1"] > 0
    /\ mem["r1"].phase = PhaseValidated
    /\ secret["prod"] = NoReq
    /\ clm["prod"] = NoClm

\* C21: CreateKubeconfigSecret at phase Validated reads the secret
\* <clusterName>-kubeconfig before anything else and writes nothing in that
\* step.  When the secret exists, whoever wrote it, no create follows, the
\* secret stays as it is and the phase becomes SecretCreated; when the read
\* fails otherwise the phase stays Validated and the error is returned; only
\* a NotFound read leads to the create, which either stores the secret of this
\* registration and sets SecretCreated, or fails, leaving the secret store
\* and the phase Validated as they are and returning the error.
C21_GetBeforeCreate ==
    [][\A r \in Reqs :
          LET n == clr[r].name
              skipped == pc'[r] = "CreateClusterManager"
              failed == /\ skipped
                        /\ secret' = secret
                        /\ mem'[r] = mem[r]
                        /\ mem'[r].phase = PhaseValidated
                        /\ errs'[r] = errs[r] + 1
          IN  /\ ( /\ pc[r] = "CreateKubeconfigSecret"
                   /\ mem[r].phase = PhaseValidated
                   /\ Stepped(r) )
                 => /\ secret' = secret
                    /\ IF fault' = FaultGetSecret
                       THEN failed
                       ELSE IF secret[n] # NoReq
                       THEN /\ skipped
                            /\ mem'[r].phase = PhaseSecretCreated
                            /\ errs'[r] = errs[r]
                       ELSE /\ pc'[r] = "CreateSecret"
                            /\ mem'[r] = mem[r]
                            /\ errs'[r] = errs[r]
              /\ (pc[r] = "CreateSecret" /\ Stepped(r))
                 => IF fault' = FaultCreateSecret \/ secret[n] # NoReq
                    THEN failed
                    ELSE /\ skipped
                         /\ secret' = [secret EXCEPT ![n] = r]
                         /\ mem'[r].phase = PhaseSecretCreated
                         /\ errs'[r] = errs[r]
              /\ (Stepped(r) /\ pc[r] # "CreateSecret") => secret' = secret]_vars

\* C21 witness: the secret was written by somebody else, and the
\* CreateKubeconfigSecret of r1 has gone past it to SecretCreated with no
\* error.
C21_Witness ==
    /\ pc["r1"] = "CreateClusterManager"
    /\ mem["r1"].phase = PhaseSecretCreated
    /\ errs["r1"] = 0
    /\ secret["prod"] = OtherOwner

\* C22: when CreateClusterManager has created the ClusterManager and
\* util.Insert then fails, the ClusterManager stays in the store, nothing is
\* registered, the step returns an error and the in-memory phase stays
\* SecretCreated; the rest of that Reconcile does not touch the
\* ClusterManager, persists neither Success nor Failed, and the key is
\* queued again because of the error.
C22_InsertFailureNoRollback ==
    [][\A r \in Reqs :
          LET n == clr[r].name
          IN  /\ (pc[r] = "CreateClm" /\ Stepped(r) /\ fault' = FaultInsert)
                 => /\ clm[n] = NoClm
                    /\ clm'[n] = OwnClm(r)
                    /\ index' = index
                    /\ errs'[r] = errs[r] + 1
                    /\ mem'[r] = mem[r]
                    /\ mem'[r].phase = PhaseSecretCreated
              /\ ( /\ pc[r] = "Patch"
                   /\ Stepped(r)
                   /\ errs[r] > 0
                   /\ mem[r].phase = PhaseSecretCreated )
                 => /\ clm' = clm
                    /\ clr'[r].phase \in {clr[r].phase, PhaseSecretCreated}
                    /\ Present(clr, r) => r \in queue']_vars

\* C22 witness: the Reconcile whose util.Insert failed has returned: r1 is
\* persisted as SecretCreated and queued again, its ClusterManager exists and
\* is not in the membership index.
C22_Witness ==
    /\ pc["r1"] = "idle"
    /\ "r1" \in queue
    /\ Present(clr, "r1")
    /\ clr["r1"].phase = PhaseSecretCreated
    /\ clm["prod"] = OwnClm("r1")
    /\ "prod" \notin index

\* The remote objects of a deploying function, in the order of its code.
DeployList(op, o) ==
    IF op = "DeployRolebinding"
    THEN <<ClusterAdminCRB(o), crList[1], crList[2]>>
    ELSE <<argocdManager, argocdManagerRole, argocdManagerRoleBinding>>

\* The step is a call of DeployRolebinding or DeployArgocdResources that got
\* as far as its remote objects.
DeployCall ==
    /\ sres'.op \in {"DeployRolebinding", "DeployArgocdResources"}
    /\ kubecfg.kind = "valid"
    /\ sres'.fault.call \notin {"getClm", "client"}
    /\ sres'.op = "DeployRolebinding" => cm.exists

\* C23: DeployRolebinding and DeployArgocdResources go through their remote
\* objects in order.  Each object they get to is read first; a found object
\* gets no Create, a NotFound one gets a Create.  A failed Get, a failed
\* Create and a Create that finds the object created by somebody else in the
\* meantime end the call with an error: the objects after it are neither read
\* nor created, and nothing that was on the remote cluster or that the call
\* created before is removed.
C23_GetBeforeCreateAbort ==
    [][DeployCall =>
          LET L == DeployList(sres'.op, cm.owner)
              f == sres'.fault
              hit == {i \in 1..Len(L) : f.obj = L[i].name}
              stop == IF hit = {} THEN Len(L) + 1 ELSE CHOOSE i \in hit : TRUE
              kept(o) == o \in remote' <=> o \in remote
          IN  /\ remote \subseteq remote'
              /\ (remote' \ remote) \subseteq {L[i] : i \in 1..Len(L)}
              /\ sres'.err = (IF hit = {} THEN "nil" ELSE "error")
              /\ \A i \in 1..Len(L) :
                    /\ i < stop
                       => /\ L[i] \in sres'.read
                          /\ L[i] \in remote'
                          /\ L[i] \in sres'.created <=> L[i] \notin remote
                    /\ i = stop
                       => /\ L[i] \in sres'.read
                          /\ f.call = "get"
                                => L[i] \notin sres'.created /\ kept(L[i])
                          /\ f.call = "create"
                                => /\ L[i] \notin remote
                                   /\ L[i] \in sres'.created
                                   /\ kept(L[i])
                          /\ f.call = "exists"
                                => /\ L[i] \notin remote
                                   /\ L[i] \in sres'.created
                                   /\ L[i] \in remote'
                    /\ i > stop
                       => /\ L[i] \notin sres'.read
                          /\ L[i] \notin sres'.created
                          /\ kept(L[i])]_vars

\* C23 witness: DeployArgocdResources created the service account, its Create
\* of the cluster role met AlreadyExists, and it returned the error with the
\* service account left in place and the role binding not attempted.
C23_Witness ==
    /\ sres.op = "DeployArgocdResources"
    /\ sres.err = "error"
    /\ sres.fault = [call |-> "exists", obj |-> argocdManagerRole.name]
    /\ sres.created = {argocdManager, argocdManagerRole}
    /\ argocdManager \in remote
    /\ argocdManagerRoleBinding \notin remote
    /\ argocdManagerRoleBinding \notin sres.read

\* The three functions the SecretReconciler runs for a secret.
SubSteps == {"UpdateClusterManagerControlPlaneEndpoint", "DeployRolebinding",
             "DeployArgocdResources"}

\* One of them run, no call failing for an outside reason, on ClusterManager
\* s.cm and remote cluster s.remote with the kubeconfig of the secret; nil
\* tells that every call so far returned a nil error.
RunSubStep(op, s) ==
    CASE op = "UpdateClusterManagerControlPlaneEndpoint" ->
             LET res == UpdateClusterManagerControlPlaneEndpoint(s.cm, kubecfg,
                                                                 NoSFault)
             IN  [cm |-> res.cm, remote |-> s.remote,
                  nil |-> s.nil /\ res.err = "nil"]
      [] op = "DeployRolebinding" ->
             LET res == DeployRolebinding(s.cm, kubecfg, s.remote, NoSFault)
             IN  [cm |-> s.cm, remote |-> res.remote,
                  nil |-> s.nil /\ res.err = "nil"]
      [] op = "DeployArgocdResources" ->
             LET res == DeployArgocdResources(kubecfg, s.remote, NoSFault)
             IN  [cm |-> s.cm, remote |-> res.remote,
                  nil |-> s.nil /\ res.err = "nil"]

\* The functions of sequence q run one after the other from state s.
RECURSIVE RunSubSteps(_, _)
RunSubSteps(q, s) ==
    IF q = << >> THEN s ELSE RunSubSteps(Tail(q), RunSubStep(Head(q), s))

\* The six orders of the three functions, and the same with one of the
\* functions run once more somewhere.
SubStepRuns ==
    {q \in UNION {[1..n -> SubSteps] : n \in {3, 4}} :
        {q[i] : i \in DOMAIN q} = SubSteps}

\* C24: for a secret with a usable kubeconfig and any state of the
\* ClusterManager (not created yet included) and of the remote cluster, the
\* three functions run in any order, one of them possibly run again, all
\* return nil and end with the same ClusterManager and the same remote
\* objects.
C24_SubStepsIndependent ==
    kubecfg.kind = "valid" =>
        LET s0 == [cm |-> cm, remote |-> remote, nil |-> TRUE]
            first == RunSubSteps(<<"UpdateClusterManagerControlPlaneEndpoint",
                                   "DeployRolebinding",
                                   "DeployArgocdResources">>, s0)
        IN  \A q \in SubStepRuns :
                /\ RunSubSteps(q, s0).nil
                /\ RunSubSteps(q, s0) = first

\* Nothing is running and nothing is pending: no Reconcile, no call of the
\* map function, no queued key, no undelivered event.
Quiescent ==
    /\ \A r \in Reqs : pc[r] = "idle"
    /\ hpc = "idle"
    /\ queue = {}
    /\ events = {}

\* C25: in every quiescent state a ClusterRegistration whose persisted phase
\* is Success has a ClusterManager named after its clusterName; a registered
\* ClusterManager deleted while the Reconcile of its parent has not yet
\* persisted Success does not leave the parent at Success without one.
C25_SuccessHasClusterManager ==
    Quiescent =>
        \A r \in Reqs :
            (Present(clr, r) /\ clr[r].phase = PhaseSuccess)
                => clm[clr[r].name] # NoClm

\* C26: whenever the persisted phase of a ClusterRegistration is Success and
\* the ClusterManager of its clusterName is the one its own Reconcile
\* created, util.Insert has registered that clusterName: an Insert that
\* failed is not passed over by a later Reconcile.
C26_SuccessIsRegistered ==
    \A r \in Reqs :
        ( /\ Present(clr, r)
          /\ clr[r].phase = PhaseSuccess
          /\ clm[clr[r].name] = OwnClm(r) )
            => clr[r].name \in index

====
